---- MODULE Spec2Model ----
(***************************************************************************)
(* A model of getoptxx::v1::arguments::parse and of the accessors of the   *)
(* arguments object (src/getoptxx.h).                                      *)
(*                                                                         *)
(* Strings are sequences of one-character strings.  argv[i] is the C       *)
(* argv[i] for i in 1..argc-1; argv[0], the program name, is never read by *)
(* parse and is not modelled.  Every argv[i] with 0 < i < argc is a        *)
(* non-null pointer to a NUL-terminated string, as main's contract says.   *)
(* One step of the model is one statement group of parse: the find_if of   *)
(* line 300, one iteration of the for loop, the for_each of line 346, and  *)
(* the insert of line 358.                                                 *)
(***************************************************************************)
EXTENDS Integers, Sequences, FiniteSets, TLC

VARIABLES
    argv,        \* the argument vector, argv[1] .. argv[argc-1]
    options,     \* the initializer_list<option>, in definition order
    pc,          \* where parse is: "find", "loop", "check", "tail", or a final place
    ae,          \* the iterator ae of line 300, as an index into argv
    a,           \* the loop iterator a of line 303, as an index into argv
    m_help,      \* arguments::m_help
    m_parsed,    \* arguments::m_parsed, a function from the keys to the values
    m_unparsed,  \* arguments::m_unparsed
    what,        \* the message of the exception thrown, <<>> while none is
    scanned,     \* history: the indices the loop body was entered at
    consumed,    \* history: the indices returned as a value by line 328
    matched,     \* history: the positions in options that line 317 found
    iters,       \* history: the number of loop iterations started
    lk           \* the last accessor call on the returned object and its outcome

vars == <<argv, options, pc, ae, a, m_help, m_parsed, m_unparsed, what,
          scanned, consumed, matched, iters, lk>>

(***************************************************************************)
(* Bounds and inputs.                                                      *)
(***************************************************************************)
\* The largest number of tokens after the program name (argc - 1).
MaxArgs == 3

\* The terminator of a C string, as operator[] of a char* reads it.
NUL == "NUL"

Str_h      == <<"h">>
Str_help   == <<"h", "e", "l", "p">>
Str_p      == <<"p">>
Str_port   == <<"p", "o", "r", "t">>
Sentinel   == <<"-", "-">>

\* The tokens a command line is drawn from.
Tokens ==
    { <<>>, <<"-">>, Sentinel,
      <<"-", "h">>, <<"-", "-", "h">>,
      <<"-">> \o Str_help, Sentinel \o Str_help,
      <<"-", "p">>, Sentinel \o Str_port,
      <<"-", "z">>, <<"1">>, <<"2">> }

argc == Len(argv) + 1

(***************************************************************************)
(* option::option (lines 232-244): the specifier is split into the short   *)
(* and the long name.                                                      *)
(***************************************************************************)
Option(name, aflags, oflags) ==
    IF Len(name) = 1
    THEN [m_short |-> name, m_long |-> <<>>, m_aflags |-> aflags, m_oflags |-> oflags]
    ELSE IF name[2] # ","
         THEN [m_short |-> <<>>, m_long |-> name,
               m_aflags |-> aflags, m_oflags |-> oflags]
         ELSE [m_short |-> SubSeq(name, 1, 1), m_long |-> SubSeq(name, 3, Len(name)),
               m_aflags |-> aflags, m_oflags |-> oflags]

Spec_p_port == <<"p", ",">> \o Str_port

\* The option lists parse is called with.
OptionLists ==
    { <<>>,
      << Option(Spec_p_port, "required", "required") >>,
      << Option(Spec_p_port, "optional", "none") >>,
      << Option(Spec_p_port, "none", "none"), Option(<<"z">>, "none", "required") >>,
      << Option(Str_p, "none", "none"), Option(Spec_p_port, "required", "required") >>,
      << Option(Str_port, "required", "none"), Option(Str_p, "optional", "required") >> }

\* The keys the accessors are called with.
Keys == { Str_p, Str_port }

(***************************************************************************)
(* Helpers of parse.                                                       *)
(***************************************************************************)
\* (*a)[i] on a NUL-terminated string: the character at 0-based index i, the
\* terminator at index strlen.
CharAt(tok, i) == IF i < Len(tok) THEN tok[i + 1] ELSE NUL

\* !*a of line 304: the pointer is null.  No element of argv[1..argc-1] is.
IsNull(tok) == FALSE

\* A faulty line 300 that never looks for "--": ae is argv+argc.
Boundary_ignored(v) == Len(v) + 1

\* Line 300: the position of the first "--" in argv[1..argc-1], argc when
\* there is none (find_if returns its last iterator, argv+argc).
Boundary(v) ==
    IF \E i \in 1..Len(v) : v[i] = Sentinel
    THEN CHOOSE i \in 1..Len(v) : v[i] = Sentinel /\ \A j \in 1..(i - 1) : v[j] # Sentinel
    ELSE Len(v) + 1

\* Line 313: the token without its first dash, or without its first two when
\* the second character is a dash too.
Candidate(tok) ==
    IF CharAt(tok, 1) = "-" THEN SubSeq(tok, 3, Len(tok)) ELSE SubSeq(tok, 2, Len(tok))

\* Line 314: s == "h" || s == "help".
IsHelp(s) == s = Str_h \/ s = Str_help

\* A faulty line 315 that leaves the loop only: break in place of return.
AfterHelp_break == "check"

\* Line 315: return args, leaving parse at once.
AfterHelp == "returned"

\* Lines 317-318: the first option one of whose names equals s; 0 stands for
\* std::end(options).
FindOption(s, opts) ==
    IF \E k \in 1..Len(opts) : s = opts[k].m_short \/ s = opts[k].m_long
    THEN CHOOSE k \in 1..Len(opts) :
            /\ s = opts[k].m_short \/ s = opts[k].m_long
            /\ \A j \in 1..(k - 1) : ~(s = opts[j].m_short \/ s = opts[j].m_long)
    ELSE 0

\* Lines 325-326: the option's argument may or must have a value.
TakesValue(o) == o.m_aflags = "required" \/ o.m_aflags = "optional"

\* A faulty line 327 without the test of the first character.
HasValue_anyShape(i) == i + 1 < ae

\* Line 327: a+1 < ae && (a+1 && (*(a+1))[0] != '-'), at a = i.
HasValue(i) == i + 1 < ae /\ CharAt(argv[i + 1], 0) # "-"

\* unordered_map::insert (lines 339, 342): a key already there keeps its value.
Insert(m, k, v) == IF k \in DOMAIN m THEN m ELSE m @@ (k :> v)

\* Lines 338-343: the value goes under the short name, then under the long one.
Record(m, o, v) ==
    LET m1 == IF o.m_short # <<>> THEN Insert(m, o.m_short, v) ELSE m
    IN  IF o.m_long # <<>> THEN Insert(m1, o.m_long, v) ELSE m1

\* A faulty test of lines 349-350 that fails only when no name is a key.
Missing_allNames(o, m) ==
    /\ o.m_short = <<>> \/ o.m_short \notin DOMAIN m
    /\ o.m_long = <<>> \/ o.m_long \notin DOMAIN m

\* Lines 349-350: option o fails the validation against the map m.
Missing(o, m) ==
    \/ o.m_short # <<>> /\ o.m_short \notin DOMAIN m
    \/ o.m_long # <<>> /\ o.m_long \notin DOMAIN m

\* Line 347 and lines 349-350: the options for_each throws at.
Failing(opts, m) ==
    { k \in 1..Len(opts) : opts[k].m_oflags = "required" /\ Missing(opts[k], m) }

\* Line 352: the long name when there is one, the short name otherwise.
NameOf(o) == IF o.m_long # <<>> THEN o.m_long ELSE o.m_short

\* The messages of lines 320, 331 and 351-353.
UnknownWhat(s) == << "unknown option '", s, "'" >>
ValueWhat(s) == << "option '", s, "' requires a value" >>
RequiredWhat(s) == << "option '", s, "' required" >>

\* What vector::insert(end, first, last) with first past last can do (line 358
\* with ae = argv+argc): the iterator range is not valid, the behaviour is
\* undefined.  libc++ computes a negative distance and inserts nothing;
\* libstdc++ takes the distance as a size and throws std::length_error; a
\* checked or hardened build stops the process.
BadRangeOutcomes == { "nothing", "length_error", "abort" }
LengthErrorWhat == << "vector::_M_range_insert" >>

\* What m_parsed.find(key)->second can do when find returns end() (lines 163
\* and 173): end() is dereferenced, the behaviour is undefined.  The read
\* faults, or it yields whatever bytes lie there.
EndDerefOutcomes == { [kind |-> "fault"] } \cup
                    { [kind |-> "value", value |-> <<"1">>] }

NoCall == [call |-> "none"]

(***************************************************************************)
(* The state after the arguments object of line 299 is constructed.        *)
(***************************************************************************)
Init ==
    /\ argv \in UNION { [1..n -> Tokens] : n \in 0..MaxArgs }
    /\ options \in OptionLists
    /\ pc = "find"
    /\ ae = 0
    /\ a = 1
    /\ m_help = FALSE
    /\ m_parsed = << >>
    /\ m_unparsed = << >>
    /\ what = << >>
    /\ scanned = {}
    /\ consumed = {}
    /\ matched = {}
    /\ iters = 0
    /\ lk = NoCall

(***************************************************************************)
(* parse, lines 297-360.                                                   *)
(***************************************************************************)
hist == <<scanned, consumed, matched, iters>>
input == <<argv, options>>

\* Line 300: find the first "--"; line 303 starts the loop at argv+1.
Find ==
    /\ pc = "find"
    /\ ae' = Boundary(argv)
    /\ a' = 1
    /\ pc' = "loop"
    /\ UNCHANGED <<input, m_help, m_parsed, m_unparsed, what, hist, lk>>

\* Line 303: the loop goes on while a != ae && !args.help().
InLoop == pc = "loop" /\ a # ae /\ ~m_help

\* The history of one more iteration, entered at a.
Enter ==
    /\ scanned' = scanned \cup {a}
    /\ iters' = iters + 1

\* Line 303, the condition false: on to the for_each of line 346.
LoopExit ==
    /\ pc = "loop"
    /\ ~(a # ae /\ ~m_help)
    /\ pc' = "check"
    /\ UNCHANGED <<input, ae, a, m_help, m_parsed, m_unparsed, what, hist, lk>>

\* Line 304 (a null pointer) and line 309 (a single '-'): continue.
Skip ==
    /\ InLoop
    /\ \/ IsNull(argv[a])
       \/ CharAt(argv[a], 0) = "-" /\ CharAt(argv[a], 1) = NUL
    /\ a' = a + 1
    /\ Enter
    /\ UNCHANGED <<input, pc, ae, m_help, m_parsed, m_unparsed, what,
                   consumed, matched, lk>>

\* Lines 306-308: a token whose first character is not '-' is unparsed.
NonOption ==
    /\ InLoop
    /\ ~IsNull(argv[a])
    /\ CharAt(argv[a], 0) # "-"
    /\ m_unparsed' = Append(m_unparsed, argv[a])
    /\ a' = a + 1
    /\ Enter
    /\ UNCHANGED <<input, pc, ae, m_help, m_parsed, what, consumed, matched, lk>>

\* The token at a reaches line 313.
IsFlag(tok) == ~IsNull(tok) /\ CharAt(tok, 0) = "-" /\ CharAt(tok, 1) # NUL

\* Lines 313-315: the candidate is h or help; parse returns at once.
Help ==
    /\ InLoop
    /\ IsFlag(argv[a])
    /\ IsHelp(Candidate(argv[a]))
    /\ m_help' = TRUE
    /\ pc' = AfterHelp
    /\ Enter
    /\ UNCHANGED <<input, ae, a, m_parsed, m_unparsed, what, consumed, matched, lk>>

\* Lines 317-322: no option has the candidate as a name.
Unknown ==
    /\ InLoop
    /\ IsFlag(argv[a])
    /\ ~IsHelp(Candidate(argv[a]))
    /\ FindOption(Candidate(argv[a]), options) = 0
    /\ what' = UnknownWhat(Candidate(argv[a]))
    /\ pc' = "thrown"
    /\ Enter
    /\ UNCHANGED <<input, ae, a, m_help, m_parsed, m_unparsed, consumed, matched, lk>>

\* Lines 329-332: the option requires a value and line 327 finds none.
NoValue ==
    /\ InLoop
    /\ IsFlag(argv[a])
    /\ ~IsHelp(Candidate(argv[a]))
    /\ LET k == FindOption(Candidate(argv[a]), options)
       IN  /\ k # 0
           /\ TakesValue(options[k])
           /\ ~HasValue(a)
           /\ options[k].m_aflags = "required"
           /\ matched' = matched \cup {k}
    /\ what' = ValueWhat(Candidate(argv[a]))
    /\ pc' = "thrown"
    /\ Enter
    /\ UNCHANGED <<input, ae, a, m_help, m_parsed, m_unparsed, consumed, lk>>

\* Lines 324-343 and the ++a of line 303: the option is recorded, with the
\* next token as its value when line 328 takes it, with an empty value
\* otherwise.
Match ==
    /\ InLoop
    /\ IsFlag(argv[a])
    /\ ~IsHelp(Candidate(argv[a]))
    /\ LET k == FindOption(Candidate(argv[a]), options)
       IN  /\ k # 0
           /\ matched' = matched \cup {k}
           /\ IF TakesValue(options[k]) /\ HasValue(a)
              THEN /\ m_parsed' = Record(m_parsed, options[k], argv[a + 1])
                   /\ consumed' = consumed \cup {a + 1}
                   /\ a' = a + 2
              ELSE /\ options[k].m_aflags # "required"
                   /\ m_parsed' = Record(m_parsed, options[k], << >>)
                   /\ consumed' = consumed
                   /\ a' = a + 1
    /\ Enter
    /\ UNCHANGED <<input, pc, ae, m_help, m_unparsed, what, lk>>

\* Lines 346-356, an option failing: for_each throws at the first one.
ValidateThrow ==
    /\ pc = "check"
    /\ Failing(options, m_parsed) # {}
    /\ LET k == CHOOSE k \in Failing(options, m_parsed) :
                    \A j \in Failing(options, m_parsed) : k <= j
       IN  what' = RequiredWhat(NameOf(options[k]))
    /\ pc' = "thrown"
    /\ UNCHANGED <<input, ae, a, m_help, m_parsed, m_unparsed, hist, lk>>

\* Lines 346-356, no option failing.
ValidateOk ==
    /\ pc = "check"
    /\ Failing(options, m_parsed) = {}
    /\ pc' = "tail"
    /\ UNCHANGED <<input, ae, a, m_help, m_parsed, m_unparsed, what, hist, lk>>

\* Lines 358-359 with a "--" found: the tokens of [ae+1, argv+argc) are
\* appended and parse returns.
AppendTail ==
    /\ pc = "tail"
    /\ ae + 1 <= argc
    /\ m_unparsed' = m_unparsed \o SubSeq(argv, ae + 1, argc - 1)
    /\ pc' = "returned"
    /\ UNCHANGED <<input, ae, a, m_help, m_parsed, what, hist, lk>>

\* Lines 358-359 with no "--": ae is argv+argc, and the range handed to
\* insert starts one past its end.
AppendBadRange ==
    /\ pc = "tail"
    /\ ae + 1 > argc
    /\ \E outcome \in BadRangeOutcomes :
          \/ /\ outcome = "nothing"
             /\ pc' = "returned"
             /\ what' = what
          \/ /\ outcome = "length_error"
             /\ pc' = "thrown"
             /\ what' = LengthErrorWhat
          \/ /\ outcome = "abort"
             /\ pc' = "aborted"
             /\ what' = what
    /\ UNCHANGED <<input, ae, a, m_help, m_parsed, m_unparsed, hist, lk>>

(***************************************************************************)
(* The accessors, on the object parse returned.                            *)
(***************************************************************************)
\* Line 154: exists(key).
Exists(key) == key \in DOMAIN m_parsed

\* Lines 162-164 and 172-174: operator[](key) with the key in the map.
Lookup ==
    /\ pc = "returned"
    /\ \E key \in Keys :
          /\ Exists(key)
          /\ lk' = [call |-> "operator[]", key |-> key, exists |-> TRUE,
                    kind |-> "value", value |-> m_parsed[key]]
    /\ UNCHANGED <<input, pc, ae, a, m_help, m_parsed, m_unparsed, what, hist>>

\* Lines 162-164 and 172-174: operator[](key) with the key not in the map.
LookupEnd ==
    /\ pc = "returned"
    /\ \E key \in Keys :
          /\ ~Exists(key)
          /\ \E r \in EndDerefOutcomes :
                lk' = [call |-> "operator[]", key |-> key, exists |-> FALSE] @@ r
    /\ UNCHANGED <<input, pc, ae, a, m_help, m_parsed, m_unparsed, what, hist>>

Next ==
    \/ Find
    \/ LoopExit
    \/ Skip
    \/ NonOption
    \/ Help
    \/ Unknown
    \/ NoValue
    \/ Match
    \/ ValidateThrow
    \/ ValidateOk
    \/ AppendTail
    \/ AppendBadRange
    \/ Lookup
    \/ LookupEnd

Spec == Init /\ [][Next]_vars

(***************************************************************************)
(* The vocabulary of the properties, stated on argv itself.                *)
(***************************************************************************)
Final == { "returned", "thrown", "aborted" }

HasSentinel == \E i \in 1..Len(argv) : argv[i] = Sentinel

\* The indices before the first "--" (all of them when there is none).
BeforeSentinel == { i \in 1..Len(argv) : \A j \in 1..i : argv[j] # Sentinel }

\* The tokens after the first "--".
AfterSentinel == SubSeq(argv, Cardinality(BeforeSentinel) + 2, Len(argv))

StartsWithDash(tok) == tok # << >> /\ tok[1] = "-"

\* The tokens of v at the indices of S, in the order of v.
Pick(v, S) ==
    LET F[n \in 0..Len(v)] ==
            IF n = 0 THEN << >>
            ELSE IF n \in S THEN Append(F[n - 1], v[n]) ELSE F[n - 1]
    IN  F[Len(v)]

\* The loop exited by its condition and parse went on to the validation.
ScanCompleted == pc \in Final /\ a = ae /\ ~m_help

\* The three messages parse itself throws are three-part.
RequiredFailure == pc = "thrown" /\ Len(what) = 3 /\ what[3] = "' required"
ValueFailure == pc = "thrown" /\ Len(what) = 3 /\ what[3] = "' requires a value"

ExactHelpTokens == { <<"-", "h">>, <<"-", "-", "h", "e", "l", "p">> }
HelpNamedTokens == ExactHelpTokens \cup { <<"-", "-", "h">>, <<"-", "h", "e", "l", "p">> }

(***************************************************************************)
(* C1.  Whenever argv holds a "--" and parse returns, m_unparsed ends with *)
(* the tokens after the first "--", in order and verbatim, on every path,  *)
(* the one where help was found before the "--" included; what comes       *)
(* before them holds no "--".                                              *)
(***************************************************************************)
C1_TailAppendedOnEveryPath ==
    (pc = "returned" /\ HasSentinel) =>
        LET n == Len(m_unparsed)
            t == AfterSentinel
        IN  /\ n >= Len(t)
            /\ SubSeq(m_unparsed, n - Len(t) + 1, n) = t
            /\ \A k \in 1..(n - Len(t)) : m_unparsed[k] # Sentinel

(***************************************************************************)
(* C2.  With no "--" in argv, no help and no error of the scan or of the   *)
(* validation, parse returns, m_unparsed is exactly the tokens that do not  *)
(* start with '-' and were not taken as a value, in order, and every       *)
(* matched option has its names in m_parsed.                               *)
(***************************************************************************)
C2_NoSentinelReturnsResult ==
    (ScanCompleted /\ ~HasSentinel /\ ~RequiredFailure) =>
        /\ pc = "returned"
        /\ m_unparsed =
              Pick(argv, { i \in 1..Len(argv) :
                              ~StartsWithDash(argv[i]) /\ i \notin consumed })
        /\ \A k \in matched :
              /\ options[k].m_short # << >> => options[k].m_short \in DOMAIN m_parsed
              /\ options[k].m_long # << >> => options[k].m_long \in DOMAIN m_parsed

(***************************************************************************)
(* C3.  Once the loop body is entered at a token -h or --help, parse has   *)
(* returned with m_help true, nothing past that token was scanned or taken *)
(* as a value, and nothing was thrown, whatever options are required.      *)
(***************************************************************************)
C3_HelpReturnsAtOnce ==
    \A i \in scanned :
        argv[i] \in ExactHelpTokens =>
            /\ pc = "returned"
            /\ m_help
            /\ what = << >>
            /\ a = i
            /\ \A j \in scanned \cup consumed : j <= i

C3_Witness ==
    /\ pc = "returned"
    /\ m_help
    /\ argv[a] \in ExactHelpTokens
    /\ a + 1 < ae
    /\ \E k \in 1..Len(options) :
          /\ options[k].m_oflags = "required"
          /\ options[k].m_short \notin DOMAIN m_parsed
          /\ options[k].m_long \notin DOMAIN m_parsed

(***************************************************************************)
(* C4, as claimed.  When the scan completes without help, parse fails with *)
(* "option '<name>' required" exactly when some required definition has    *)
(* none of its names as a key, naming the first such one; a required       *)
(* definition with at least one name as a key passes.                      *)
(***************************************************************************)
C4_OneNameSuffices ==
    ScanCompleted =>
        LET none == { k \in 1..Len(options) :
                        /\ options[k].m_oflags = "required"
                        /\ options[k].m_short \notin DOMAIN m_parsed
                        /\ options[k].m_long \notin DOMAIN m_parsed }
        IN  IF none # {}
            THEN LET k == CHOOSE k \in none : \A j \in none : k <= j
                     o == options[k]
                 IN  /\ pc = "thrown"
                     /\ what = << "option '",
                                  IF o.m_long # << >> THEN o.m_long ELSE o.m_short,
                                  "' required" >>
            ELSE ~RequiredFailure

(***************************************************************************)
(* C4, amended.  When the scan completes without help, parse fails with    *)
(* "option '<name>' required" exactly when some required definition has a  *)
(* name that is not a key, naming the first such one by its long name when *)
(* it has one and by its short name otherwise; a required definition       *)
(* passes only when every name it has is a key.                            *)
(***************************************************************************)
C4_EveryNameRequired ==
    ScanCompleted =>
        LET some == { k \in 1..Len(options) :
                        /\ options[k].m_oflags = "required"
                        /\ \E n \in { options[k].m_short, options[k].m_long } :
                              n # << >> /\ n \notin DOMAIN m_parsed }
        IN  IF some # {}
            THEN LET k == CHOOSE k \in some : \A j \in some : k <= j
                     o == options[k]
                 IN  /\ pc = "thrown"
                     /\ what = << "option '",
                                  IF o.m_long # << >> THEN o.m_long ELSE o.m_short,
                                  "' required" >>
            ELSE ~RequiredFailure

C4_Witness ==
    /\ RequiredFailure
    /\ \E k \in 1..Len(options) :
          /\ what[2] = options[k].m_long
          /\ options[k].m_oflags = "required"
          /\ options[k].m_short \in DOMAIN m_parsed
          /\ options[k].m_long \notin DOMAIN m_parsed

C6_StrictLookup ==
    lk.call = "operator[]" =>
        IF lk.key \in DOMAIN m_parsed
        THEN lk.kind = "value" /\ lk.value = m_parsed[lk.key]
        ELSE lk.kind = "error" /\ lk.what = << "no value for '", lk.key, "'" >>

(***************************************************************************)
(* C7.  In every returned result, each matched definition with a short and *)
(* a long name has both as keys, with the same value under both, also when *)
(* another definition shares one of the names.                             *)
(***************************************************************************)
C7_AliasesAgree ==
    pc = "returned" =>
        \A k \in matched :
            (options[k].m_short # << >> /\ options[k].m_long # << >>) =>
                /\ options[k].m_short \in DOMAIN m_parsed
                /\ options[k].m_long \in DOMAIN m_parsed
                /\ m_parsed[options[k].m_short] = m_parsed[options[k].m_long]

(***************************************************************************)
(* C8, as claimed.  In every returned result, m_help is true exactly when  *)
(* a token before the first "--" is -h or --help.                          *)
(***************************************************************************)
C8_HelpIffExactToken ==
    pc = "returned" =>
        (m_help <=> \E i \in BeforeSentinel : argv[i] \in ExactHelpTokens)

(***************************************************************************)
(* C8, amended.  In every returned result, m_help is true exactly when a   *)
(* token before the first "--" is h or help behind one or two dashes: -h,  *)
(* --h, -help or --help.                                                   *)
(***************************************************************************)
C8_HelpIffHelpName ==
    pc = "returned" =>
        (m_help <=> \E i \in BeforeSentinel : argv[i] \in HelpNamedTokens)

C8_Witness ==
    /\ pc = "returned"
    /\ m_help
    /\ argv[a] \in HelpNamedTokens \ ExactHelpTokens
    /\ \E i \in 1..Len(argv) : i \notin BeforeSentinel /\ argv[i] \in ExactHelpTokens

(***************************************************************************)
(* C9.  A step of the scan at an empty token, or at a token that is        *)
(* exactly "-", passes the token and leaves m_help, m_parsed and           *)
(* m_unparsed as they were.                                                *)
(***************************************************************************)
C9_SkippedWithNoEffect ==
    [][ ( /\ pc = "loop" /\ a # ae /\ ~m_help
          /\ argv[a] = << >> \/ argv[a] = <<"-">> )
        =>
        ( /\ pc' = "loop"
          /\ a' = a + 1
          /\ m_help' = m_help
          /\ m_parsed' = m_parsed
          /\ m_unparsed' = m_unparsed )
      ]_vars

(***************************************************************************)
(* C10.  Every index parse scans or takes as a value lies in 1..argc-1,    *)
(* the cursor never passes ae, the loop runs at most argc-1 times, and the *)
(* range line 358 copies is well formed: ae + 1 <= argc, with or without a *)
(* "--" in argv.                                                           *)
(***************************************************************************)
C10_IndicesInRange ==
    /\ scanned \cup consumed \subseteq 1..(argc - 1)
    /\ iters <= argc - 1
    /\ pc # "find" => a <= ae
    /\ pc = "tail" => ae + 1 <= argc

====
